---- MODULE Spec2Model ----
(***************************************************************************)
(* Model of the catalog persistence layer of ol-ocr:                       *)
(*   src/src/ol_ocr/library.py   Book.save, Book.from_db                   *)
(*   src/src/ol_ocr/database.py  db_conn, transaction                      *)
(* The store is the SQLite file behind DB_FILE.  The book, author and      *)
(* subject tables are sequences of rows in rowid order (row i has id i: no *)
(* statement deletes).  The two link tables are sets of pairs: nothing     *)
(* reads a link's rowid but lastrowid right after its insert, and that is  *)
(* the number of links.  Every call of save / from_db opens    *)
(* its own connection (db_conn), runs its statements in auto-commit mode   *)
(* (isolation_level=None) and closes the connection.                       *)
(* Not in src/: schema.sql.  Its constraints are taken from the            *)
(* specification's section on the schema.                                  *)
(***************************************************************************)
EXTENDS Integers, Sequences, FiniteSets, TLC

VARIABLES book, author, subject, book_author, book_subject, last,
          sess, schema, FOUND_ISBN, loop

tables == <<book, author, subject, book_author, book_subject>>
vars == <<book, author, subject, book_author, book_subject, last,
          sess, schema, FOUND_ISBN, loop>>

(***************************************************************************)
(* Bounds of the model and the small sets the inputs are drawn from.       *)
(***************************************************************************)
MaxAuthors == 2

NULL == "None"
Isbns == {"i1", "i2"}
BookUrls == {"b1", "b2"}
\* the metadata a record carries: (title, subtitle, cover_url), subtitle and
\* cover_url being optional.  The title goes with the url, so that one isbn
\* can come under two titles.
MetaOf(isbn, url) ==
    << IF url = "b1" THEN "T1" ELSE "T2",
       IF isbn = "i1" THEN NULL ELSE "sub",
       IF isbn = "i1" THEN NULL ELSE "cover" >>
AuthorPool == { [url |-> "a1", name |-> "A"],
                [url |-> "a1", name |-> "B"],
                [url |-> "a2", name |-> "A"] }
SubjectNames == {"x"}

RECURSIVE SeqsUpTo(_, _)
SeqsUpTo(S, n) ==
    IF n = 0 THEN { <<>> }
    ELSE LET shorter == SeqsUpTo(S, n - 1)
         IN shorter \cup { Append(s, x) : s \in shorter, x \in S }

Range(s) == { s[i] : i \in DOMAIN s }

\* the orders in which iterating a Python set can yield its elements
Orders(S) == { s \in SeqsUpTo(S, Cardinality(S)) :
                 Len(s) = Cardinality(S) /\ Range(s) = S }

AuthorLists == SeqsUpTo(AuthorPool, MaxAuthors)
SubjectSets == SUBSET SubjectNames

Books == { [url |-> u, isbn |-> i, title |-> MetaOf(i, u)[1],
            subtitle |-> MetaOf(i, u)[2], authors |-> a, subjects |-> s,
            cover_url |-> MetaOf(i, u)[3]] :
           u \in BookUrls, i \in Isbns, a \in AuthorLists, s \in SubjectSets }

(***************************************************************************)
(* The store as one value, and the schema's constraints.                   *)
(***************************************************************************)
DB == [book |-> book, author |-> author, subject |-> subject,
       book_author |-> book_author, book_subject |-> book_subject]

EmptyDB == [book |-> <<>>, author |-> <<>>, subject |-> <<>>,
            book_author |-> {}, book_subject |-> {}]

\* rowid given to a new row: one more than the largest in the table
NextRowid(tbl) == Len(tbl) + 1
NextLinkRowid(links) == Cardinality(links) + 1

BookUrlTaken(db, url) == \E i \in DOMAIN db.book : db.book[i].url = url
BookIsbnTaken(db, isbn) == \E i \in DOMAIN db.book : db.book[i].isbn = isbn
AuthorUrlTaken(db, url) == \E i \in DOMAIN db.author : db.author[i].url = url
SubjectNameTaken(db, name) ==
    \E i \in DOMAIN db.subject : db.subject[i].sub_name = name
BookIdExists(db, id) == \E i \in DOMAIN db.book : db.book[i].id = id
AuthorIdExists(db, id) == \E i \in DOMAIN db.author : db.author[i].id = id
SubjectIdExists(db, id) == \E i \in DOMAIN db.subject : db.subject[i].id = id

(***************************************************************************)
(* A connection (db_conn).  db is the file as this connection's statements *)
(* have left it; snap is what a ROLLBACK (or closing with a transaction    *)
(* open) restores; rid is sqlite3_last_insert_rowid(), which is what       *)
(* cursor.lastrowid reads after an INSERT statement; err is the exception  *)
(* in flight.  aborts[k] is the file as it is left when the storage engine *)
(* fails the k-th statement this connection issues (I/O error, lock): the  *)
(* exception leaves save at once, the transaction scope rolls back if it   *)
(* is open, and what auto-commit statements wrote before stays.            *)
(***************************************************************************)
OK == "ok"
IntegrityError == "IntegrityError"
OperationalError == "OperationalError"

db_conn(db) ==
    [db |-> db, snap |-> db, tx |-> FALSE, rid |-> 0, aborts |-> <<>>,
     err |-> OK]

\* issuing one statement
Issue(c) == [c EXCEPT !.aborts = Append(@, IF c.tx THEN c.snap ELSE c.db)]

\* cur.fetchone(): a row <<id>>, or None when the query has no row
None == << >>

\* cur.fetchone() of "SELECT id FROM book WHERE isbn = ?"
SelectBookId(db, isbn) ==
    IF BookIsbnTaken(db, isbn)
    THEN << (CHOOSE r \in Range(db.book) : r.isbn = isbn).id >>
    ELSE None

\* SelectAuthorId whose WHERE clause matches no row
SelectAuthorId_Miss(db, url) == None

\* cur.fetchone() of "SELECT id from author where url = ?"
SelectAuthorId(db, url) ==
    IF AuthorUrlTaken(db, url)
    THEN << (CHOOSE r \in Range(db.author) : r.url = url).id >>
    ELSE None

\* cur.fetchone() of "SELECT id from subject where sub_name = ?"
SelectSubjectId(db, name) ==
    IF SubjectNameTaken(db, name)
    THEN << (CHOOSE r \in Range(db.subject) : r.sub_name = name).id >>
    ELSE None

\* InsertBook with the url conflict not detected: the row is written whenever
\* the isbn is free
InsertBook_UrlUnchecked(c, b) ==
    LET c1 == Issue(c)
        id == NextRowid(c1.db.book)
        row == [id |-> id, url |-> b.url, isbn |-> b.isbn, title |-> b.title,
                subtitle |-> b.subtitle, cover_url |-> b.cover_url]
    IN IF c1.err # OK THEN c1
       ELSE IF BookIsbnTaken(c1.db, b.isbn)
            THEN [c1 EXCEPT !.err = IntegrityError]
       ELSE [c1 EXCEPT !.db.book = Append(@, row), !.rid = id]

\* InsertBook as an upsert that overwrites: ON CONFLICT (url) DO UPDATE
InsertBook_Overwrite(c, b) ==
    LET c1 == Issue(c)
        id == NextRowid(c1.db.book)
        row == [id |-> id, url |-> b.url, isbn |-> b.isbn, title |-> b.title,
                subtitle |-> b.subtitle, cover_url |-> b.cover_url]
        at == CHOOSE i \in DOMAIN c1.db.book : c1.db.book[i].url = b.url
    IN IF c1.err # OK THEN c1
       ELSE IF BookUrlTaken(c1.db, b.url)
            THEN [c1 EXCEPT !.db.book[at] = [row EXCEPT !.id = at]]
       ELSE IF BookIsbnTaken(c1.db, b.isbn)
            THEN [c1 EXCEPT !.err = IntegrityError]
       ELSE [c1 EXCEPT !.db.book = Append(@, row), !.rid = id]

\* INSERT INTO book ... ON CONFLICT (url) DO NOTHING
InsertBook(c, b) ==
    LET c1 == Issue(c)
        id == NextRowid(c1.db.book)
        row == [id |-> id, url |-> b.url, isbn |-> b.isbn, title |-> b.title,
                subtitle |-> b.subtitle, cover_url |-> b.cover_url]
    IN IF c1.err # OK THEN c1
       ELSE IF BookUrlTaken(c1.db, b.url) THEN c1
       ELSE IF BookIsbnTaken(c1.db, b.isbn)
            THEN [c1 EXCEPT !.err = IntegrityError]
       ELSE [c1 EXCEPT !.db.book = Append(@, row), !.rid = id]

\* INSERT INTO author (url, name) ... ON CONFLICT (url) DO NOTHING
InsertAuthor(c, a) ==
    LET c1 == Issue(c)
        id == NextRowid(c1.db.author)
    IN IF c1.err # OK THEN c1
       ELSE IF AuthorUrlTaken(c1.db, a.url) THEN c1
       ELSE [c1 EXCEPT !.db.author =
                          Append(@, [id |-> id, url |-> a.url, name |-> a.name]),
                       !.rid = id]

\* INSERT INTO subject (sub_name) ... ON CONFLICT (sub_name) DO NOTHING
InsertSubject(c, name) ==
    LET c1 == Issue(c)
        id == NextRowid(c1.db.subject)
    IN IF c1.err # OK THEN c1
       ELSE IF SubjectNameTaken(c1.db, name) THEN c1
       ELSE [c1 EXCEPT !.db.subject = Append(@, [id |-> id, sub_name |-> name]),
                       !.rid = id]

\* InsertBookAuthor with foreign keys not enforced
InsertBookAuthor_NoForeignKeys(c, b_id, a_id) ==
    LET c1 == Issue(c)
        row == [b_id |-> b_id, a_id |-> a_id]
    IN IF c1.err # OK THEN c1
       ELSE IF row \in c1.db.book_author THEN c1
       ELSE [c1 EXCEPT !.rid = NextLinkRowid(c1.db.book_author),
                       !.db.book_author = @ \cup {row}]

\* INSERT INTO book_author (b_id, a_id) ... ON CONFLICT DO NOTHING
\* (foreign keys are enforced: pragma foreign_keys = on)
InsertBookAuthor(c, b_id, a_id) ==
    LET c1 == Issue(c)
        row == [b_id |-> b_id, a_id |-> a_id]
    IN IF c1.err # OK THEN c1
       ELSE IF row \in c1.db.book_author THEN c1
       ELSE IF ~(BookIdExists(c1.db, b_id) /\ AuthorIdExists(c1.db, a_id))
            THEN [c1 EXCEPT !.err = IntegrityError]
       ELSE [c1 EXCEPT !.rid = NextLinkRowid(c1.db.book_author),
                       !.db.book_author = @ \cup {row}]

\* INSERT INTO book_subject (b_id, s_id) ... ON CONFLICT DO NOTHING
InsertBookSubject(c, b_id, s_id) ==
    LET c1 == Issue(c)
        row == [b_id |-> b_id, s_id |-> s_id]
    IN IF c1.err # OK THEN c1
       ELSE IF row \in c1.db.book_subject THEN c1
       ELSE IF ~(BookIdExists(c1.db, b_id) /\ SubjectIdExists(c1.db, s_id))
            THEN [c1 EXCEPT !.err = IntegrityError]
       ELSE [c1 EXCEPT !.rid = NextLinkRowid(c1.db.book_subject),
                       !.db.book_subject = @ \cup {row}]

(***************************************************************************)
(* transaction(conn): BEGIN, the body, then COMMIT, or ROLLBACK when the   *)
(* body raised.                                                            *)
(***************************************************************************)
Begin(c) ==
    LET c1 == Issue(c)
    IN IF c1.err # OK THEN c1 ELSE [c1 EXCEPT !.tx = TRUE, !.snap = c1.db]

Rollback(c) == [c EXCEPT !.db = c.snap, !.tx = FALSE]

Commit(c) ==
    IF ~c.tx THEN c      \* conn.commit() outside a transaction does nothing
    ELSE LET c1 == Issue(c)
         IN IF c1.err # OK THEN c1 ELSE [c1 EXCEPT !.tx = FALSE, !.snap = c1.db]

\* transaction_InsertBook that leaves its transaction open: no COMMIT when
\* the body has completed
transaction_InsertBook_NoCommit(c, b) ==
    LET c1 == Begin(c)
        c2 == InsertBook(c1, b)
    IN IF c1.err # OK THEN c1
       ELSE IF c2.err # OK THEN Rollback(c2)
       ELSE c2

\* with transaction(conn): INSERT INTO book ...
transaction_InsertBook(c, b) ==
    LET c1 == Begin(c)
        c2 == InsertBook(c1, b)
    IN IF c1.err # OK THEN c1
       ELSE IF c2.err # OK THEN Rollback(c2)
       ELSE Commit(c2)

\* leaving db_conn: conn.close() discards a transaction still open
Close(c) == IF c.tx THEN Rollback(c) ELSE c

(***************************************************************************)
(* Book.save                                                               *)
(***************************************************************************)
\* SaveAuthors without find-or-create: every author is written as a new row
RECURSIVE SaveAuthors_AlwaysInsert(_, _, _)
SaveAuthors_AlwaysInsert(c, b_id, authors) ==
    IF c.err # OK \/ authors = <<>> THEN c
    ELSE LET a == Head(authors)
             c1 == Issue(c)
             a_id == NextRowid(c1.db.author)
             c2 == [c1 EXCEPT !.db.author =
                                 Append(@, [id |-> a_id, url |-> a.url,
                                            name |-> a.name]),
                              !.rid = a_id]
             c3 == InsertBookAuthor(c2, b_id, a_id)
         IN SaveAuthors_AlwaysInsert(c3, b_id, Tail(authors))

\* for author in self.authors: ...
RECURSIVE SaveAuthors(_, _, _)
SaveAuthors(c, b_id, authors) ==
    IF c.err # OK \/ authors = <<>> THEN c
    ELSE LET a == Head(authors)
             c1 == Issue(c)                       \* SELECT id from author
             result == SelectAuthorId(c1.db, a.url)
             c2 == IF result = None THEN InsertAuthor(c1, a) ELSE c1
             a_id == IF result = None THEN c2.rid ELSE result[1]
             c3 == InsertBookAuthor(c2, b_id, a_id)
         IN IF c1.err # OK THEN c1
            ELSE IF c2.err # OK THEN c2
            ELSE SaveAuthors(c3, b_id, Tail(authors))

\* for subject in self.subjects: ...  (in the order the set yields them)
RECURSIVE SaveSubjects(_, _, _)
SaveSubjects(c, b_id, subjects) ==
    IF c.err # OK \/ subjects = <<>> THEN c
    ELSE LET s == Head(subjects)
             c1 == Issue(c)                       \* SELECT id from subject
             result == SelectSubjectId(c1.db, s)
             c2 == IF result = None THEN InsertSubject(c1, s) ELSE c1
             s_id == IF result = None THEN c2.rid ELSE result[1]
             c3 == InsertBookSubject(c2, b_id, s_id)
         IN IF c1.err # OK THEN c1
            ELSE IF c2.err # OK THEN c2
            ELSE SaveSubjects(c3, b_id, Tail(subjects))

\* the book row's identity as save computes it
SaveBook(c, b) ==
    LET c1 == Issue(c)                            \* SELECT id FROM book
        result == SelectBookId(c1.db, b.isbn)
        c2 == IF result = None THEN transaction_InsertBook(c1, b) ELSE c1
    IN IF c1.err # OK THEN [c |-> c1, b_id |-> 0]
       ELSE [c |-> c2, b_id |-> IF result = None THEN c2.rid ELSE result[1]]

\* the body of save up to its last loop: the connection as it reaches
\* conn.commit(), or as the exception leaves it
SaveStatements(db, b, order) ==
    LET sb == SaveBook(db_conn(db), b)
        ca == SaveAuthors(sb.c, sb.b_id, b.authors)
    IN SaveSubjects(ca, sb.b_id, order)

\* save, whole: the connection as it is closed
save(db, b, order) ==
    LET cs == SaveStatements(db, b, order)
    IN IF cs.err # OK THEN Close(cs) ELSE Close(Commit(cs))

(***************************************************************************)
(* Book.from_db                                                            *)
(***************************************************************************)
BookNotInDatabaseError == "BookNotInDatabaseError"

\* JoinAuthors without its WHERE clause: the authors of every book
JoinAuthors_AnyBook(db, b_id) ==
    { ba.a_id : ba \in { l \in db.book_author : AuthorIdExists(db, l.a_id) } }

\* rows of "SELECT url, name FROM author a JOIN book_author ba ...": one
\* per link of the book whose author row exists, here as the set of the
\* author ids (a link is unique, so no author comes twice)
JoinAuthors(db, b_id) ==
    { ba.a_id : ba \in { l \in db.book_author :
                            l.b_id = b_id /\ AuthorIdExists(db, l.a_id) } }

\* the set built from "SELECT sub_name FROM subject s JOIN book_subject bs ..."
JoinSubjects(db, b_id) ==
    { s.sub_name : s \in { s \in Range(db.subject) :
          \E bs \in db.book_subject : bs.b_id = b_id /\ bs.s_id = s.id } }

\* from_db that assembles a Book without raising when the isbn is not stored
from_db_NoRaise(db, isbn, ids) ==
    IF ~BookIsbnTaken(db, isbn)
    THEN [out |-> OK,
          book |-> [url |-> NULL, isbn |-> isbn, title |-> NULL,
                    subtitle |-> NULL, authors |-> <<>>, subjects |-> {},
                    cover_url |-> NULL]]
    ELSE LET r == CHOOSE r \in Range(db.book) : r.isbn = isbn
         IN [out |-> OK,
             book |-> [url |-> r.url, isbn |-> r.isbn, title |-> r.title,
                       subtitle |-> r.subtitle,
                       authors |-> [i \in DOMAIN ids |->
                                      [url |-> db.author[ids[i]].url,
                                       name |-> db.author[ids[i]].name]],
                       subjects |-> JoinSubjects(db, r.id),
                       cover_url |-> r.cover_url]]

\* from_db: the Book it returns, the joined author rows taken in the order
\* ids (the join has no ORDER BY: the engine picks the order), or the
\* exception it raises
from_db(db, isbn, ids) ==
    IF ~BookIsbnTaken(db, isbn)
    THEN [out |-> BookNotInDatabaseError, arg |-> isbn]
    ELSE LET r == CHOOSE r \in Range(db.book) : r.isbn = isbn
         IN [out |-> OK,
             book |-> [url |-> r.url, isbn |-> r.isbn, title |-> r.title,
                       subtitle |-> r.subtitle,
                       authors |-> [i \in DOMAIN ids |->
                                      [url |-> db.author[ids[i]].url,
                                       name |-> db.author[ids[i]].name]],
                       subjects |-> JoinSubjects(db, r.id),
                       cover_url |-> r.cover_url]]

\* the orders in which the author join of from_db can yield its rows
JoinOrders(db, isbn) ==
    IF ~BookIsbnTaken(db, isbn) THEN { <<>> }
    ELSE Orders(JoinAuthors(db, (CHOOSE r \in Range(db.book) : r.isbn = isbn).id))

(***************************************************************************)
(* Sessions, for the runs in which calls interleave statement by           *)
(* statement.  sess[s] is the call session s is in: its place (pc), its    *)
(* locals, its connection (tx: a transaction is open; rid: the last insert *)
(* rowid; lock: it holds the write lock; priv: its private view of the     *)
(* store while it holds the lock), where it stands to its transaction      *)
(* scope, the exception it raised (exc), what it returned (ret) and the    *)
(* statements it has issued (log).  The tables are the committed store,    *)
(* which every statement outside a write transaction reads.  schema is the *)
(* list of tables created so far.                                          *)
(***************************************************************************)
Boot == "s0"
Sessions == {"s1", "s2"}
AllSessions == {Boot} \cup Sessions

\* the tables schema.sql creates
SchemaTables == <<"book", "author", "subject", "book_author", "book_subject">>

NoSession ==
    [pc |-> "idle", op |-> "none", book |-> <<>>, isbn |-> NULL,
     todoA |-> <<>>, todoS |-> <<>>, result |-> None, b_id |-> 0, x_id |-> 0,
     tx |-> FALSE, rid |-> 0, lock |-> FALSE, priv |-> <<>>,
     scope |-> "out", exc |-> OK,
     row |-> <<>>, authors |-> <<>>, ret |-> <<>>, log |-> <<>>]

\* the capture loop before its first frame: its place, the frames it has
\* taken, the text of the frame in hand, what find_isbn returned on it, the
\* Book fetched, the exception that ended the loop, and the calls it made
\* (find_isbn, fetch, add, save) with their isbn and whether they succeeded
NoLoop ==
    [pc |-> "pop", frames |-> 0, text |-> <<>>, isbn |-> None, book |-> <<>>,
     exc |-> OK, calls |-> <<>>]

(***************************************************************************)
(* The state machine: one action per call.                                 *)
(***************************************************************************)
Saved == last.op = "save"
Loaded == last.op = "load"

\* how a book stands to the store when save is called on it
Kind(db, b) ==
    IF BookIsbnTaken(db, b.isbn) THEN "known"
    ELSE IF BookUrlTaken(db, b.url) THEN "collide"
    ELSE "new"

\* last: what the caller holds of the call it made last: what it gave and
\* what came of it.  For a save, kind is how the book stood to the store.
\* For a load that comes right after a save of the same isbn which no
\* storage failure cut short, kind and url are that save's (kind is "none"
\* otherwise).  The caller holds nothing (Idle) before its first call and
\* once it has moved on (Forget); it starts a save holding nothing, as the
\* capture loop does at the head of each round.
Idle == [op |-> "idle", isbn |-> NULL, url |-> NULL, kind |-> "none",
         out |-> OK, arg |-> NULL, ret |-> <<>>]

Init ==
    /\ book = <<>> /\ author = <<>> /\ subject = <<>>
    /\ book_author = {} /\ book_subject = {}
    /\ last = Idle
    /\ sess = [s \in AllSessions |-> NoSession]
    /\ schema = SchemaTables
    /\ FOUND_ISBN = {}
    /\ loop = NoLoop

\* book.save(), with a storage failure at statement failAt (0: none).  The
\* run c is bound once and shared by the failure points.
Save ==
    /\ last = Idle
    /\ \E b \in Books : \E order \in Orders(b.subjects) :
       \E c \in { save(DB, b, order) } :
       \E failAt \in 0 .. Len(c.aborts) :
       \E db \in { IF failAt = 0 THEN c.db ELSE c.aborts[failAt] } :
           /\ book' = db.book
           /\ author' = db.author
           /\ subject' = db.subject
           /\ book_author' = db.book_author
           /\ book_subject' = db.book_subject
           /\ last' = [op |-> "save", isbn |-> b.isbn, url |-> b.url,
                       kind |-> Kind(DB, b),
                       out |-> IF failAt = 0 THEN c.err ELSE OperationalError,
                       arg |-> NULL, ret |-> <<>>]
    /\ UNCHANGED <<sess, schema, FOUND_ISBN, loop>>

\* Load that caches a miss: a stub row is written for an isbn not stored
Load_StubOnMiss ==
    \E isbn \in Isbns : \E ids \in JoinOrders(DB, isbn) :
    \E r \in { from_db(DB, isbn, ids) } :
    \E follows \in { Saved /\ last.isbn = isbn /\ last.out # OperationalError } :
        /\ last' = [op |-> "load", isbn |-> isbn,
                    url |-> IF follows THEN last.url ELSE NULL,
                    kind |-> IF follows THEN last.kind ELSE "none",
                    out |-> r.out,
                    arg |-> IF r.out = OK THEN NULL ELSE r.arg,
                    ret |-> IF r.out = OK THEN <<r.book>> ELSE <<>>]
        /\ book' = IF r.out = OK THEN book
                   ELSE Append(book, [id |-> NextRowid(book), url |-> NULL,
                                      isbn |-> isbn, title |-> NULL,
                                      subtitle |-> NULL, cover_url |-> NULL])
        /\ UNCHANGED <<author, subject, book_author, book_subject>>
        /\ UNCHANGED <<sess, schema, FOUND_ISBN, loop>>

\* Book.from_db(isbn)
Load ==
    \E isbn \in Isbns : \E ids \in JoinOrders(DB, isbn) :
    \E r \in { from_db(DB, isbn, ids) } :
    \E follows \in { Saved /\ last.isbn = isbn /\ last.out # OperationalError } :
        /\ last' = [op |-> "load", isbn |-> isbn,
                    url |-> IF follows THEN last.url ELSE NULL,
                    kind |-> IF follows THEN last.kind ELSE "none",
                    out |-> r.out,
                    arg |-> IF r.out = OK THEN NULL ELSE r.arg,
                    ret |-> IF r.out = OK THEN <<r.book>> ELSE <<>>]
        /\ UNCHANGED <<tables, sess, schema, FOUND_ISBN, loop>>

\* the caller moves on
Forget ==
    /\ last # Idle
    /\ last' = Idle
    /\ UNCHANGED <<tables, sess, schema, FOUND_ISBN, loop>>

Next == Save \/ Load \/ Forget

Spec == Init /\ [][Next]_vars

(***************************************************************************)
(* Claims                                                                  *)
(***************************************************************************)
\* C3: in every state any sequence of saves reaches, failing saves included,
\* the store holds at most one book row per isbn and at most one per url, at
\* most one author row per url and at most one subject row per name.
C3_Uniqueness ==
    /\ \A i, j \in DOMAIN book :
          (book[i].isbn = book[j].isbn \/ book[i].url = book[j].url) => i = j
    /\ \A i, j \in DOMAIN author : author[i].url = author[j].url => i = j
    /\ \A i, j \in DOMAIN subject :
          subject[i].sub_name = subject[j].sub_name => i = j

\* a book, two authors and a subject are stored, and the save that ran last
\* brought a new isbn under the stored book's url and failed
C3_Witness ==
    /\ Saved /\ last.out = IntegrityError
    /\ Len(book) = 1 /\ Len(author) = 2 /\ Len(subject) = 1
    /\ BookUrlTaken(DB, last.url) /\ ~BookIsbnTaken(DB, last.isbn)

\* C4: in every state any sequence of saves reaches, every book_author row
\* names a book row and an author row that exist, and every book_subject row
\* a book row and a subject row that exist.
C4_ReferentialIntegrity ==
    /\ \A l \in book_author :
          BookIdExists(DB, l.b_id) /\ AuthorIdExists(DB, l.a_id)
    /\ \A l \in book_subject :
          BookIdExists(DB, l.b_id) /\ SubjectIdExists(DB, l.s_id)

\* links of both kinds are stored, and the save that ran last was stopped by
\* the foreign key of a link
C4_Witness ==
    /\ Saved /\ last.out = IntegrityError
    /\ book_author # {} /\ book_subject # {}

\* Every store that is reached is reached with the caller holding nothing
\* (Init, Forget), so a statement about all calls on all reached stores is
\* evaluated there.

Count(l, a) == Cardinality({ i \in DOMAIN l : l[i] = a })
\* two author lists equal up to their order
SameAuthors(l1, l2) ==
    \A a \in Range(l1) \cup Range(l2) : Count(l1, a) = Count(l2, a)

\* save(b) runs to its end on db and every load of b.isbn that follows
\* returns b, up to the order of the authors
RoundTrips(db, b, order) ==
    \A c \in { save(db, b, order) } :
        /\ c.err = OK
        /\ \A ids \in JoinOrders(c.db, b.isbn) :
           \A r \in { from_db(c.db, b.isbn, ids) } :
               /\ r.out = OK
               /\ r.book.url = b.url /\ r.book.isbn = b.isbn
               /\ r.book.title = b.title /\ r.book.subtitle = b.subtitle
               /\ r.book.cover_url = b.cover_url
               /\ SameAuthors(r.book.authors, b.authors)
               /\ r.book.subjects = b.subjects

\* C1: on every store that saves reach and for every Book b, save(b) and
\* then save(b) again leaves the five tables as the first save(b) left them
\* (neither save being cut short by a storage failure).
C1_Idempotent ==
    last = Idle =>
        \A b \in Books : \A o1 \in Orders(b.subjects) :
        \A c1 \in { save(DB, b, o1) } :
        \A o2 \in Orders(b.subjects) :
            save(c1.db, b, o2).db = c1.db

\* a save of a book whose isbn was stored has run to its end; the store
\* holds a book of that isbn and url with two authors and a subject, and
\* saving it once more leaves the store as it is
C1_Witness ==
    /\ Saved /\ last.kind = "known" /\ last.out = OK
    /\ \E b \in Books : \E o \in Orders(b.subjects) :
          /\ b.isbn = last.isbn /\ b.url = last.url
          /\ Len(b.authors) = 2 /\ b.subjects # {}
          /\ b.authors[1].url # b.authors[2].url
          /\ \A a \in Range(b.authors) : a \in { [url |-> r.url, name |-> r.name] : r \in Range(author) }
          /\ Cardinality({ l \in book_author : l.b_id = SelectBookId(DB, b.isbn)[1] }) = 2
          /\ save(DB, b, o).db = DB

\* C2, as claimed: for every Book b whose isbn is not stored, save(b) and
\* then load(b.isbn) returns b: same url, isbn, title, subtitle and
\* cover_url, same authors up to order, same subject set.
C2_RoundTripAnyNewIsbn ==
    last = Idle =>
        \A b \in Books : ~BookIsbnTaken(DB, b.isbn) =>
            \A order \in Orders(b.subjects) : RoundTrips(DB, b, order)

\* the author urls of b are pairwise distinct
DistinctAuthorUrls(b) ==
    \A i, j \in DOMAIN b.authors :
        b.authors[i].url = b.authors[j].url => i = j

\* no author of b is stored under the same url with another name
NoStaleAuthor(db, b) ==
    \A a \in Range(b.authors) : \A r \in Range(db.author) :
        r.url = a.url => r.name = a.name

\* C2, amended: for every Book b whose isbn and url are both not stored,
\* whose author urls are pairwise distinct and none of whose authors is
\* stored under its url with another name, save(b) runs to its end and
\* load(b.isbn) then returns b: same url, isbn, title, subtitle and
\* cover_url, same authors up to order, same subject set.
C2_RoundTrip ==
    last = Idle =>
        \A b \in Books :
            (Kind(DB, b) = "new" /\ DistinctAuthorUrls(b) /\ NoStaleAuthor(DB, b))
                => \A order \in Orders(b.subjects) : RoundTrips(DB, b, order)

\* a load has followed the save of a new book into a store that held
\* another book, and has returned a Book of two authors and a subject that
\* save and load carry round
C2_Witness ==
    /\ Loaded /\ last.kind = "new" /\ last.out = OK
    /\ Len(book) = 2
    /\ Len(last.ret[1].authors) = 2 /\ last.ret[1].subjects # {}
    /\ last.ret[1].url = last.url
    /\ \E b \in Books :
          /\ b.isbn = last.isbn /\ b.url = last.url
          /\ SameAuthors(b.authors, last.ret[1].authors)
          /\ b.subjects = last.ret[1].subjects
          /\ RoundTrips(EmptyDB, b, CHOOSE o \in Orders(b.subjects) : TRUE)

\* the author urls, and the subject names, two books share
SharedAuthorUrls(b1, b2) ==
    { a.url : a \in Range(b1.authors) } \cap { a.url : a \in Range(b2.authors) }
SharedSubjects(b1, b2) == b1.subjects \cap b2.subjects

\* in db the author of url u is one row, linked to the rows of both isbns
AuthorOnceForBoth(db, u, isbn1, isbn2) ==
    /\ Cardinality({ i \in DOMAIN db.author : db.author[i].url = u }) = 1
    /\ \A isbn \in {isbn1, isbn2} :
          /\ BookIsbnTaken(db, isbn)
          /\ [b_id |-> SelectBookId(db, isbn)[1],
              a_id |-> SelectAuthorId(db, u)[1]] \in db.book_author

\* in db the subject of name n is one row, linked to the rows of both isbns
SubjectOnceForBoth(db, n, isbn1, isbn2) ==
    /\ Cardinality({ i \in DOMAIN db.subject : db.subject[i].sub_name = n }) = 1
    /\ \A isbn \in {isbn1, isbn2} :
          /\ BookIsbnTaken(db, isbn)
          /\ [b_id |-> SelectBookId(db, isbn)[1],
              s_id |-> SelectSubjectId(db, n)[1]] \in db.book_subject

\* C6: after the saves of two books new to the store, of different isbn and
\* url, that share an author url and a subject name, the store has one
\* author row for that url and one subject row for that name, each linked
\* to the rows of both books.
C6_DedupAcrossBooks ==
    last = Idle =>
        \A b1 \in Books : Kind(DB, b1) = "new" =>
        \A b2 \in Books :
            ( /\ Kind(DB, b2) = "new"
              /\ b2.isbn # b1.isbn /\ b2.url # b1.url
              /\ SharedAuthorUrls(b1, b2) # {}
              /\ SharedSubjects(b1, b2) # {} ) =>
            \A o1 \in Orders(b1.subjects) : \A o2 \in Orders(b2.subjects) :
            \A c1 \in { save(DB, b1, o1) } :
            \A c2 \in { save(c1.db, b2, o2) } :
                /\ c1.err = OK /\ c2.err = OK
                /\ \A u \in SharedAuthorUrls(b1, b2) :
                      AuthorOnceForBoth(c2.db, u, b1.isbn, b2.isbn)
                /\ \A n \in SharedSubjects(b1, b2) :
                      SubjectOnceForBoth(c2.db, n, b1.isbn, b2.isbn)

\* the save of a second new book has run to its end, and an author row and
\* a subject row are each linked to both book rows
C6_Witness ==
    /\ Saved /\ last.kind = "new" /\ last.out = OK
    /\ Len(book) = 2
    /\ \E u \in { r.url : r \in Range(author) } :
          AuthorOnceForBoth(DB, u, book[1].isbn, book[2].isbn)
    /\ \E n \in { r.sub_name : r \in Range(subject) } :
          SubjectOnceForBoth(DB, n, book[1].isbn, book[2].isbn)

\* C5: a save that fails with a storage error leaves the five tables as they
\* were before the call.
C5_FailedSaveRestores ==
    [][(last'.op = "save" /\ last'.out # OK) => tables' = tables]_vars

\* C7: a save of a book whose url is that of a stored book and whose isbn is
\* not stored adds no book row and leaves every stored book row as it was.
C7_UrlConflictNoSecondRow ==
    [][(last'.op = "save" /\ last'.kind = "collide") => book' = book]_vars

\* a save of a colliding book has run to its end, and the first book's row
\* is the only one
C7_Witness ==
    /\ Saved /\ last.kind = "collide" /\ last.out = OK
    /\ Len(book) = 1 /\ book[1].url = last.url /\ book[1].isbn # last.isbn

\* C8, as claimed: a load of the new isbn right after the save of a book
\* whose url collided returns the row of the book that holds the url.
C8_LookupFindsFirstRow ==
    (Loaded /\ last.kind = "collide")
        => (last.out = OK /\ Len(last.ret) = 1 /\ last.ret[1].url = last.url)

\* C8, amended: a load of the new isbn right after the save of a book whose
\* url collided fails with not-found, carrying that isbn, and returns no
\* Book; the row that holds the url still has its own isbn only.
C8_LookupNotFound ==
    (Loaded /\ last.kind = "collide")
        => /\ last.out = BookNotInDatabaseError /\ last.arg = last.isbn
           /\ last.ret = <<>>
           /\ \E i \in DOMAIN book :
                 book[i].url = last.url /\ book[i].isbn # last.isbn

\* the load of the new isbn has followed the save of a colliding book
C8_Witness ==
    /\ Loaded /\ last.kind = "collide" /\ last.out = BookNotInDatabaseError
    /\ Len(book) = 1 /\ book_author # {}

\* C9: a load of an isbn that has no book row fails with not-found carrying
\* that isbn and returns no Book; a load of an isbn that has a book row
\* returns the Book of that row.
C9_NotFound ==
    Loaded =>
        IF BookIsbnTaken(DB, last.isbn)
        THEN /\ last.out = OK /\ Len(last.ret) = 1
             /\ last.ret[1].isbn = last.isbn
        ELSE /\ last.out = BookNotInDatabaseError /\ last.arg = last.isbn
             /\ last.ret = <<>>

\* a load has missed in a store that holds another book
C9_Witness ==
    /\ Loaded /\ last.out = BookNotInDatabaseError
    /\ Len(book) = 1 /\ book[1].isbn # last.isbn

\* C10: a load leaves the five tables as they were, whether it returns a
\* Book or fails with not-found.
C10_LoadReadOnly == [][last'.op = "load" => tables' = tables]_vars

\* a load has missed in a store that holds rows in every table
C10_Witness ==
    /\ Loaded /\ last.out = BookNotInDatabaseError
    /\ book # <<>> /\ author # <<>> /\ subject # <<>>
    /\ book_author # {} /\ book_subject # {}

\* C11: a save of a book whose url is that of a stored book and whose isbn
\* is not stored, when no storage failure cuts it short, runs to its end
\* without error, and every link it writes names the stored row of that url.
C11_UrlConflictResolves ==
    [][(last'.op = "save" /\ last'.kind = "collide"
            /\ last'.out # OperationalError)
        => /\ last'.out = OK
           /\ \A l \in (book_author' \ book_author) \cup
                        (book_subject' \ book_subject) :
                 \E i \in DOMAIN book :
                     book[i].url = last'.url /\ book[i].id = l.b_id]_vars

\* the links the book of an isbn has in db
LinksOf(db, isbn) ==
    [a |-> { l \in db.book_author : <<l.b_id>> = SelectBookId(db, isbn) },
     s |-> { l \in db.book_subject : <<l.b_id>> = SelectBookId(db, isbn) }]

\* C12: save of a new book b with distinct author urls reaches its final
\* conn.commit() with no transaction open, so that commit issues nothing;
\* and a storage failure at any statement after the COMMIT of the book's
\* row leaves the book row stored with a strict subset of the links the
\* whole save writes.
C12_PartialCommit ==
    last = Idle =>
        \A b \in Books : (Kind(DB, b) = "new" /\ DistinctAuthorUrls(b)) =>
            \A order \in Orders(b.subjects) :
            \A cs \in { SaveStatements(DB, b, order) } :
            \A nb \in { Len(SaveBook(db_conn(DB), b).c.aborts) } :
                /\ cs.err = OK /\ ~cs.tx /\ Commit(cs) = cs
                /\ \A k \in (nb + 1) .. Len(cs.aborts) :
                   \A left \in { LinksOf(cs.aborts[k], b.isbn) } :
                   \A full \in { LinksOf(cs.db, b.isbn) } :
                       /\ BookIsbnTaken(cs.aborts[k], b.isbn)
                       /\ left.a \subseteq full.a /\ left.s \subseteq full.s
                       /\ left # full

\* a storage failure has cut the save of a new book short: its row is
\* stored, one of its authors is linked to it, a second author row is
\* written and not linked, and no subject is linked
C12_Witness ==
    /\ Saved /\ last.kind = "new" /\ last.out = OperationalError
    /\ BookIsbnTaken(DB, last.isbn)
    /\ Cardinality(LinksOf(DB, last.isbn).a) = 1
    /\ LinksOf(DB, last.isbn).s = {}
    /\ \E i \in DOMAIN author :
          \A l \in book_author : l.a_id # author[i].id

\* C13: a load of the isbn right after a save of a new book that a storage
\* failure cut short either fails with not-found or returns a Book of no
\* authors and no subjects.
C13_FailedSaveAllOrNothing ==
    [][(Saved /\ last.kind = "new" /\ last.out = OperationalError
            /\ last'.op = "load" /\ last'.isbn = last.isbn)
        => \/ last'.out = BookNotInDatabaseError
           \/ /\ last'.out = OK
              /\ last'.ret[1].authors = <<>>
              /\ last'.ret[1].subjects = {}]_vars

\* C16: no step changes or removes a stored book, author or subject row
\* (its id and every column stay), and no step removes a link.
C16_WriteOnce ==
    [][/\ \A i \in DOMAIN book : i \in DOMAIN book' /\ book'[i] = book[i]
       /\ \A i \in DOMAIN author : i \in DOMAIN author' /\ author'[i] = author[i]
       /\ \A i \in DOMAIN subject :
             i \in DOMAIN subject' /\ subject'[i] = subject[i]
       /\ book_author \subseteq book_author'
       /\ book_subject \subseteq book_subject']_vars

\* a save of a stored isbn under another url and title has run to its end
\* and the row is as first written; an author row is stored too
C16_Witness ==
    /\ Saved /\ last.kind = "known" /\ last.out = OK
    /\ \E i \in DOMAIN book :
          /\ book[i].isbn = last.isbn /\ book[i].url # last.url
          /\ book[i].title = MetaOf(book[i].isbn, book[i].url)[1]
          /\ book[i].title # MetaOf(last.isbn, last.url)[1]
    /\ author # <<>> /\ book_author # {}

(***************************************************************************)
(* Calls that interleave: every statement of save, from_db and of the      *)
(* bootstrap is a step of its session.  A statement may be failed by the   *)
(* storage engine (fail): it then raises sqlite3.OperationalError and      *)
(* writes nothing.  The statements the context managers issue on the way   *)
(* out (ROLLBACK, the pragmas of the finalizer, close) are taken to        *)
(* succeed.  A write statement waits while another session holds the       *)
(* write lock (WAL: readers go on, on the committed store).                *)
(***************************************************************************)
\* the books saved in the interleaved runs: one or two authors, the first
\* shared, and the subject
StepBooks ==
    { b \in Books :
        /\ b.subjects = SubjectNames
        /\ b.authors \in { << [url |-> "a1", name |-> "A"] >>,
                           << [url |-> "a1", name |-> "A"],
                              [url |-> "a2", name |-> "A"] >> } }

\* the connection a statement of session record ss runs on: it reads the
\* committed store unless ss holds the write lock
View(ss) ==
    [db |-> IF ss.lock THEN ss.priv[1] ELSE DB, snap |-> DB, tx |-> ss.tx,
     rid |-> ss.rid, aborts |-> <<>>, err |-> OK]

\* the session record after a statement left its connection as c1
After(ss, c1, private) ==
    [ss EXCEPT !.tx = c1.tx, !.rid = c1.rid,
               !.lock = private,
               !.priv = IF private THEN <<c1.db>> ELSE <<>>]

\* one more statement issued on the session, ok or failed
Logged(ss, st, ok) == [ss EXCEPT !.log = Append(@, [st |-> st, ok |-> ok])]

\* no other session holds the write lock
CanWrite(s) == \A t \in AllSessions \ {s} : ~sess[t].lock

\* an exception that leaves the body of "with db_conn(...)" without
\* reaching the finalizer
Raise_SkipFinally(ss, e) == [ss EXCEPT !.exc = e, !.pc = "done"]

\* an exception leaves the body of "with db_conn(...)": the finally clause
\* runs next
Raise(ss, e) == [ss EXCEPT !.exc = e, !.pc = "optimize"]

\* where save goes on after the book, and after each author and subject
NextLoop(ss) ==
    IF ss.todoA # <<>> THEN "select_author"
    ELSE IF ss.todoS # <<>> THEN "select_subject"
    ELSE "commit_final"

\* the committed store becomes db
Publish(db) ==
    /\ book' = db.book
    /\ author' = db.author
    /\ subject' = db.subject
    /\ book_author' = db.book_author
    /\ book_subject' = db.book_subject

\* create_db_if_needed: the file does not exist; with db_conn(db_file)
BootStart ==
    /\ sess[Boot].pc = "idle" /\ schema = <<>>
    /\ sess' = [sess EXCEPT ![Boot] =
                  Logged([NoSession EXCEPT !.pc = "begin", !.op = "boot"],
                         "connect", TRUE)]
    /\ UNCHANGED <<tables, last, schema, FOUND_ISBN, loop>>

\* book.save(): with db_conn(DB_FILE) as conn
StartSave(s) ==
    /\ sess[s].pc = "idle" /\ sess[Boot].pc = "done" /\ schema = SchemaTables
    /\ \E b \in StepBooks : \E order \in Orders(b.subjects) :
          sess' = [sess EXCEPT ![s] =
                     Logged([NoSession EXCEPT !.pc = "select_book",
                                              !.op = "save", !.book = <<b>>,
                                              !.isbn = b.isbn,
                                              !.todoA = b.authors,
                                              !.todoS = order],
                            "connect", TRUE)]
    /\ UNCHANGED <<tables, last, schema, FOUND_ISBN, loop>>

\* Book.from_db(isbn): with db_conn(DB_FILE) as conn
StartLoad(s) ==
    /\ sess[s].pc = "idle" /\ sess[Boot].pc = "done" /\ schema = SchemaTables
    /\ \E isbn \in Isbns :
          sess' = [sess EXCEPT ![s] =
                     Logged([NoSession EXCEPT !.pc = "load_book",
                                              !.op = "load", !.isbn = isbn],
                            "connect", TRUE)]
    /\ UNCHANGED <<tables, last, schema, FOUND_ISBN, loop>>

\* SELECT id FROM book WHERE isbn = ?; if not result: ... else: b_id = result[0]
StepSelectBook(s) ==
    /\ sess[s].pc = "select_book"
    /\ \E fail \in BOOLEAN :
       \E ss \in { Logged(sess[s], "SELECT", ~fail) } :
       \E result \in { SelectBookId(DB, ss.isbn) } :
          sess' = [sess EXCEPT ![s] =
                     IF fail THEN Raise(ss, OperationalError)
                     ELSE IF result = None
                          THEN [ss EXCEPT !.result = result, !.pc = "begin"]
                     ELSE [ss EXCEPT !.result = result, !.b_id = result[1],
                                     !.pc = NextLoop(ss)]]
    /\ UNCHANGED <<tables, last, schema, FOUND_ISBN, loop>>

\* transaction(conn): conn.execute("BEGIN"), then the body
StepBegin(s) ==
    /\ sess[s].pc = "begin"
    /\ \E fail \in BOOLEAN :
       \E ss \in { Logged(sess[s], "BEGIN", ~fail) } :
          sess' = [sess EXCEPT ![s] =
                     IF fail THEN Raise(ss, OperationalError)
                     ELSE [After(ss, Begin(View(ss)), FALSE) EXCEPT
                                     !.scope = "body",
                                     !.pc = IF ss.op = "boot" THEN "script"
                                            ELSE "insert_book"]]
    /\ UNCHANGED <<tables, last, schema, FOUND_ISBN, loop>>

\* the body of the scope in save: INSERT INTO book ... ON CONFLICT (url) DO
\* NOTHING.  The statement opens the write transaction.
StepInsertBook(s) ==
    /\ sess[s].pc = "insert_book"
    /\ CanWrite(s)
    /\ \E fail \in BOOLEAN :
       \E c1 \in { InsertBook(View(sess[s]), sess[s].book[1]) } :
       \E ss \in { Logged(sess[s], "INSERT", ~fail /\ c1.err = OK) } :
          sess' = [sess EXCEPT ![s] =
                     IF fail
                     THEN [ss EXCEPT !.exc = OperationalError,
                                     !.pc = "rollback"]
                     ELSE IF c1.err # OK
                          THEN [After(ss, c1, TRUE) EXCEPT
                                   !.exc = c1.err, !.pc = "rollback"]
                     ELSE [After(ss, c1, TRUE) EXCEPT !.pc = "commit"]]
    /\ UNCHANGED <<tables, last, schema, FOUND_ISBN, loop>>

\* the body of the scope in create_db_if_needed: conn.executescript(...).
\* executescript first commits the transaction that is open, then runs the
\* statements of the script one by one, each in auto-commit; the storage
\* engine may fail the statement that creates table failAt (0: none).
StepScript(s) ==
    /\ sess[s].pc = "script"
    /\ \E failAt \in 0 .. Len(SchemaTables) :
       \E made \in { IF failAt = 0 THEN Len(SchemaTables) ELSE failAt - 1 } :
       \E s1 \in { IF sess[s].tx
                   THEN [Logged(sess[s], "COMMIT", TRUE) EXCEPT !.tx = FALSE]
                   ELSE sess[s] } :
       \E s2 \in { [s1 EXCEPT !.log =
                      @ \o [i \in 1 .. made |-> [st |-> "CREATE", ok |-> TRUE]]] } :
          /\ schema' = SubSeq(SchemaTables, 1, made)
          /\ sess' = [sess EXCEPT ![s] =
                        IF failAt = 0 THEN [s2 EXCEPT !.pc = "commit"]
                        ELSE [Logged(s2, "CREATE", FALSE) EXCEPT
                                 !.exc = OperationalError, !.pc = "rollback"]]
    /\ UNCHANGED <<tables, last, FOUND_ISBN, loop>>

\* transaction(conn), except: conn.rollback(); raise.  rollback() issues
\* ROLLBACK when a transaction is open and nothing otherwise.
StepRollback(s) ==
    /\ sess[s].pc = "rollback"
    /\ \E ss \in { IF sess[s].tx
                   THEN After(Logged(sess[s], "ROLLBACK", TRUE),
                              Rollback(View(sess[s])), FALSE)
                   ELSE sess[s] } :
          sess' = [sess EXCEPT ![s] =
                     Raise([ss EXCEPT !.scope = "left_exc"], ss.exc)]
    /\ UNCHANGED <<tables, last, schema, FOUND_ISBN, loop>>

\* transaction(conn), else: conn.commit(); then, in save, b_id = cur.lastrowid.
\* commit() issues COMMIT when a transaction is open and nothing otherwise.
StepCommit(s) ==
    /\ sess[s].pc = "commit"
    /\ \E fail \in (IF sess[s].tx THEN BOOLEAN ELSE {FALSE}) :
       \E ss \in { IF sess[s].tx THEN Logged(sess[s], "COMMIT", ~fail)
                   ELSE sess[s] } :
       \E c1 \in { Commit(View(ss)) } :
          /\ IF fail THEN UNCHANGED tables ELSE Publish(c1.db)
          /\ sess' = [sess EXCEPT ![s] =
                        IF fail
                        THEN Raise([ss EXCEPT !.scope = "left_ok"],
                                   OperationalError)
                        ELSE [After(ss, c1, FALSE) EXCEPT
                                        !.scope = "left_ok",
                                        !.b_id = c1.rid,
                                        !.pc = IF ss.op = "boot" THEN "optimize"
                                               ELSE NextLoop(ss)]]
    /\ UNCHANGED <<last, schema, FOUND_ISBN, loop>>

\* SELECT id from author where url = ?; if not result: ... else: a_id = result[0]
StepSelectAuthor(s) ==
    /\ sess[s].pc = "select_author"
    /\ \E fail \in BOOLEAN :
       \E ss \in { Logged(sess[s], "SELECT", ~fail) } :
       \E result \in { SelectAuthorId(DB, Head(ss.todoA).url) } :
          sess' = [sess EXCEPT ![s] =
                     IF fail THEN Raise(ss, OperationalError)
                     ELSE IF result = None
                          THEN [ss EXCEPT !.result = result,
                                          !.pc = "insert_author"]
                     ELSE [ss EXCEPT !.result = result, !.x_id = result[1],
                                     !.pc = "link_author"]]
    /\ UNCHANGED <<tables, last, schema, FOUND_ISBN, loop>>

\* INSERT INTO author ... ON CONFLICT (url) DO NOTHING; a_id = cur.lastrowid
StepInsertAuthor(s) ==
    /\ sess[s].pc = "insert_author"
    /\ CanWrite(s)
    /\ \E fail \in BOOLEAN :
       \E c1 \in { InsertAuthor(View(sess[s]), Head(sess[s].todoA)) } :
       \E ss \in { Logged(sess[s], "INSERT", ~fail) } :
          /\ IF fail THEN UNCHANGED tables ELSE Publish(c1.db)
          /\ sess' = [sess EXCEPT ![s] =
                        IF fail THEN Raise(ss, OperationalError)
                        ELSE [After(ss, c1, FALSE) EXCEPT
                                        !.x_id = c1.rid,
                                        !.pc = "link_author"]]
    /\ UNCHANGED <<last, schema, FOUND_ISBN, loop>>

\* INSERT INTO book_author (b_id, a_id) ... ON CONFLICT DO NOTHING
StepLinkAuthor(s) ==
    /\ sess[s].pc = "link_author"
    /\ CanWrite(s)
    /\ \E fail \in BOOLEAN :
       \E c1 \in { InsertBookAuthor(View(sess[s]), sess[s].b_id, sess[s].x_id) } :
       \E ss \in { Logged(sess[s], "INSERT", ~fail /\ c1.err = OK) } :
       \E popped \in { [ss EXCEPT !.todoA = Tail(@)] } :
          /\ IF fail THEN UNCHANGED tables ELSE Publish(c1.db)
          /\ sess' = [sess EXCEPT ![s] =
                        IF fail THEN Raise(ss, OperationalError)
                        ELSE IF c1.err # OK THEN Raise(ss, c1.err)
                        ELSE [After(popped, c1, FALSE) EXCEPT
                                            !.pc = NextLoop(popped)]]
    /\ UNCHANGED <<last, schema, FOUND_ISBN, loop>>

\* SELECT id from subject where sub_name = ?; if not result: ... else: s_id = result[0]
StepSelectSubject(s) ==
    /\ sess[s].pc = "select_subject"
    /\ \E fail \in BOOLEAN :
       \E ss \in { Logged(sess[s], "SELECT", ~fail) } :
       \E result \in { SelectSubjectId(DB, Head(ss.todoS)) } :
          sess' = [sess EXCEPT ![s] =
                     IF fail THEN Raise(ss, OperationalError)
                     ELSE IF result = None
                          THEN [ss EXCEPT !.result = result,
                                          !.pc = "insert_subject"]
                     ELSE [ss EXCEPT !.result = result, !.x_id = result[1],
                                     !.pc = "link_subject"]]
    /\ UNCHANGED <<tables, last, schema, FOUND_ISBN, loop>>

\* INSERT INTO subject ... ON CONFLICT (sub_name) DO NOTHING; s_id = cur.lastrowid
StepInsertSubject(s) ==
    /\ sess[s].pc = "insert_subject"
    /\ CanWrite(s)
    /\ \E fail \in BOOLEAN :
       \E c1 \in { InsertSubject(View(sess[s]), Head(sess[s].todoS)) } :
       \E ss \in { Logged(sess[s], "INSERT", ~fail) } :
          /\ IF fail THEN UNCHANGED tables ELSE Publish(c1.db)
          /\ sess' = [sess EXCEPT ![s] =
                        IF fail THEN Raise(ss, OperationalError)
                        ELSE [After(ss, c1, FALSE) EXCEPT
                                        !.x_id = c1.rid,
                                        !.pc = "link_subject"]]
    /\ UNCHANGED <<last, schema, FOUND_ISBN, loop>>

\* INSERT INTO book_subject (b_id, s_id) ... ON CONFLICT DO NOTHING
StepLinkSubject(s) ==
    /\ sess[s].pc = "link_subject"
    /\ CanWrite(s)
    /\ \E fail \in BOOLEAN :
       \E c1 \in { InsertBookSubject(View(sess[s]), sess[s].b_id, sess[s].x_id) } :
       \E ss \in { Logged(sess[s], "INSERT", ~fail /\ c1.err = OK) } :
       \E popped \in { [ss EXCEPT !.todoS = Tail(@)] } :
          /\ IF fail THEN UNCHANGED tables ELSE Publish(c1.db)
          /\ sess' = [sess EXCEPT ![s] =
                        IF fail THEN Raise(ss, OperationalError)
                        ELSE IF c1.err # OK THEN Raise(ss, c1.err)
                        ELSE [After(popped, c1, FALSE) EXCEPT
                                            !.pc = NextLoop(popped)]]
    /\ UNCHANGED <<last, schema, FOUND_ISBN, loop>>

\* conn.commit() at the end of save: COMMIT when a transaction is open,
\* nothing otherwise
StepFinalCommit(s) ==
    /\ sess[s].pc = "commit_final"
    /\ Publish(Commit(View(sess[s])).db)
    /\ sess' = [sess EXCEPT ![s] =
                  [After(IF sess[s].tx THEN Logged(sess[s], "COMMIT", TRUE)
                         ELSE sess[s],
                         Commit(View(sess[s])), FALSE)
                   EXCEPT !.pc = "optimize"]]
    /\ UNCHANGED <<last, schema, FOUND_ISBN, loop>>

\* SELECT * FROM book WHERE isbn = ?; raise BookNotInDatabaseError(isbn)
StepLoadBook(s) ==
    /\ sess[s].pc = "load_book"
    /\ \E fail \in BOOLEAN :
       \E ss \in { Logged(sess[s], "SELECT", ~fail) } :
          sess' = [sess EXCEPT ![s] =
                     IF fail THEN Raise(ss, OperationalError)
                     ELSE IF ~BookIsbnTaken(DB, ss.isbn)
                          THEN Raise(ss, BookNotInDatabaseError)
                     ELSE [ss EXCEPT
                              !.row = << CHOOSE r \in Range(book) :
                                            r.isbn = ss.isbn >>,
                              !.pc = "load_authors"]]
    /\ UNCHANGED <<tables, last, schema, FOUND_ISBN, loop>>

\* SELECT url, name FROM author a JOIN book_author ba ... WHERE b_id = ?
StepLoadAuthors(s) ==
    /\ sess[s].pc = "load_authors"
    /\ \E fail \in BOOLEAN :
       \E ss \in { Logged(sess[s], "SELECT", ~fail) } :
       \E ids \in Orders(JoinAuthors(DB, ss.row[1].id)) :
          sess' = [sess EXCEPT ![s] =
                     IF fail THEN Raise(ss, OperationalError)
                     ELSE [ss EXCEPT
                              !.authors = [i \in DOMAIN ids |->
                                             [url |-> author[ids[i]].url,
                                              name |-> author[ids[i]].name]],
                              !.pc = "load_subjects"]]
    /\ UNCHANGED <<tables, last, schema, FOUND_ISBN, loop>>

\* SELECT sub_name FROM subject s JOIN book_subject bs ... WHERE b_id = ?;
\* return cls(...)
StepLoadSubjects(s) ==
    /\ sess[s].pc = "load_subjects"
    /\ \E fail \in BOOLEAN :
       \E ss \in { Logged(sess[s], "SELECT", ~fail) } :
       \E r \in { ss.row[1] } :
          sess' = [sess EXCEPT ![s] =
                     IF fail THEN Raise(ss, OperationalError)
                     ELSE [ss EXCEPT
                              !.ret = << [url |-> r.url, isbn |-> r.isbn,
                                          title |-> r.title,
                                          subtitle |-> r.subtitle,
                                          authors |-> ss.authors,
                                          subjects |-> JoinSubjects(DB, r.id),
                                          cover_url |-> r.cover_url] >>,
                              !.pc = "optimize"]]
    /\ UNCHANGED <<tables, last, schema, FOUND_ISBN, loop>>

\* db_conn, finally: pragma analysis_limit=400; pragma optimize
StepOptimize(s) ==
    /\ sess[s].pc = "optimize"
    /\ sess' = [sess EXCEPT ![s] =
                  [Logged(sess[s], "optimize", TRUE) EXCEPT !.pc = "close"]]
    /\ UNCHANGED <<tables, last, schema, FOUND_ISBN, loop>>

\* db_conn, finally: conn.close(), which drops a transaction still open
StepClose(s) ==
    /\ sess[s].pc = "close"
    /\ sess' = [sess EXCEPT ![s] =
                  [After(Logged(sess[s], "close", TRUE),
                         Close(View(sess[s])), FALSE)
                   EXCEPT !.rid = 0, !.pc = "done"]]
    /\ UNCHANGED <<tables, last, schema, FOUND_ISBN, loop>>

StepInit ==
    /\ book = <<>> /\ author = <<>> /\ subject = <<>>
    /\ book_author = {} /\ book_subject = {}
    /\ last = Idle
    /\ sess = [s \in AllSessions |-> NoSession]
    /\ schema = <<>>
    /\ FOUND_ISBN = {}
    /\ loop = NoLoop

StepNext ==
    \/ BootStart
    \/ \E s \in Sessions : StartSave(s) \/ StartLoad(s)
    \/ \E s \in AllSessions :
          \/ StepBegin(s) \/ StepScript(s) \/ StepRollback(s) \/ StepCommit(s)
          \/ StepOptimize(s) \/ StepClose(s)
    \/ \E s \in Sessions :
          \/ StepSelectBook(s) \/ StepInsertBook(s)
          \/ StepSelectAuthor(s) \/ StepInsertAuthor(s) \/ StepLinkAuthor(s)
          \/ StepSelectSubject(s) \/ StepInsertSubject(s) \/ StepLinkSubject(s)
          \/ StepFinalCommit(s)
          \/ StepLoadBook(s) \/ StepLoadAuthors(s) \/ StepLoadSubjects(s)

StepSpec == StepInit /\ [][StepNext]_vars

\* the statements a session has issued after its BEGIN that end a
\* transaction, in order
ScopeEnds(ss) ==
    SelectSeq(SubSeq(ss.log,
                     1 + (CHOOSE i \in DOMAIN ss.log : ss.log[i].st = "BEGIN"),
                     Len(ss.log)),
              LAMBDA e : e.st \in {"COMMIT", "ROLLBACK"})

\* C14: a session that has entered a transaction scope issued BEGIN before;
\* when it has left the scope with the body completed it has issued, since
\* BEGIN, COMMIT and no ROLLBACK; when it has left the scope by a failure of
\* the body it has issued ROLLBACK and no COMMIT, the failure goes on, the
\* connection has no transaction and no private view left, and nothing the
\* body of the bootstrap created is in the store.
C14_ScopeProtocol ==
    \A s \in AllSessions : \A ss \in { sess[s] } :
        /\ ss.scope # "out" =>
              \E i \in DOMAIN ss.log : ss.log[i] = [st |-> "BEGIN", ok |-> TRUE]
        /\ ss.scope = "left_ok" =>
              /\ Len(ScopeEnds(ss)) = 1
              /\ ScopeEnds(ss)[1].st = "COMMIT"
        /\ ss.scope = "left_exc" =>
              /\ Len(ScopeEnds(ss)) = 1
              /\ ScopeEnds(ss)[1].st = "ROLLBACK"
              /\ ss.exc # OK
              /\ ~ss.tx /\ ~ss.lock /\ ss.priv = <<>>
              /\ ss.op = "boot" => schema = <<>>

C17_FindOrCreateRace ==
    \A s1, s2 \in Sessions :
        ( /\ s1 # s2
          /\ sess[s1].op = "save" /\ sess[s1].pc = "done"
          /\ sess[s2].op = "save" /\ sess[s2].pc = "done"
          /\ sess[s1].exc # OperationalError
          /\ sess[s2].exc # OperationalError
          /\ sess[s1].book[1].isbn # sess[s2].book[1].isbn
          /\ sess[s1].book[1].url # sess[s2].book[1].url ) =>
        \A b1 \in { sess[s1].book[1] } : \A b2 \in { sess[s2].book[1] } :
            /\ sess[s1].exc = OK /\ sess[s2].exc = OK
            /\ \A u \in SharedAuthorUrls(b1, b2) :
                  AuthorOnceForBoth(DB, u, b1.isbn, b2.isbn)
            /\ \A n \in SharedSubjects(b1, b2) :
                  SubjectOnceForBoth(DB, n, b1.isbn, b2.isbn)

\* C18: when a load has returned a Book of the isbn that the other session
\* saves, and that save has run to its end without error, the Book returned
\* has all the authors and subjects of the Book saved.
C18_ReaderSeesWholeBook ==
    \A r, w \in Sessions :
        ( /\ r # w
          /\ sess[r].op = "load" /\ sess[r].ret # <<>>
          /\ sess[w].op = "save" /\ sess[w].isbn = sess[r].isbn
          /\ sess[w].pc = "done" /\ sess[w].exc = OK ) =>
        /\ SameAuthors(sess[r].ret[1].authors, sess[w].book[1].authors)
        /\ sess[r].ret[1].subjects = sess[w].book[1].subjects

(***************************************************************************)
(* The capture loop of main.py and the identifier resolver find_isbn.      *)
(* A frame's text is a sequence of words, a word a sequence of characters. *)
(* isbnlib is not part of the repository: get_isbnlike and Isbn are        *)
(* modelled by what find_isbn relies on (the ISBN-like substrings, in text *)
(* order; NotValidISBNError for a failed check digit; the canonical form   *)
(* with the hyphens removed).                                              *)
(***************************************************************************)
MaxTokens == 2
MaxFrames == 3

Digits == <<"0", "1", "2", "3", "4", "5", "6", "7", "8", "9">>

Tokens ==
    { <<"0", "-", "3", "0", "6", "-", "4", "0", "6", "1", "5", "-", "2">>,
      <<"0", "3", "0", "6", "4", "0", "6", "1", "5", "3">>,
      <<"9", "7", "8", "0", "3", "0", "6", "4", "0", "6", "1", "5", "7">>,
      <<"9", "7", "8", "0", "2", "2", "6", "5", "5", "0", "2", "7", "5">>,
      <<"I", "S", "B", "N">> }

Texts == SeqsUpTo(Tokens, MaxTokens)

\* the word without its hyphens
Clean(tok) == SelectSeq(tok, LAMBDA ch : ch # "-")

IsDigit(ch) == \E n \in DOMAIN Digits : Digits[n] = ch

DigitValue(ch) ==
    IF ch = "X" THEN 10 ELSE (CHOOSE n \in DOMAIN Digits : Digits[n] = ch) - 1

\* the lexical shape of an ISBN: ten or thirteen digits, hyphens apart, the
\* last of ten possibly X
Shaped(tok) ==
    \A d \in { Clean(tok) } :
        /\ Len(d) \in {10, 13}
        /\ \A i \in DOMAIN d :
              IsDigit(d[i]) \/ (Len(d) = 10 /\ i = 10 /\ d[i] = "X")

\* isbnlib.get_isbnlike(text): the ISBN-like substrings, in text order
get_isbnlike(text) == SelectSeq(text, Shaped)

RECURSIVE WeightedSum(_, _)
\* the check sum of the digits d from position i on
WeightedSum(d, i) ==
    IF i > Len(d) THEN 0
    ELSE DigitValue(d[i]) *
            (IF Len(d) = 10 THEN 11 - i ELSE IF i % 2 = 1 THEN 1 ELSE 3)
         + WeightedSum(d, i + 1)

\* the check digit rule of ISBN-10 and of ISBN-13
ValidChecksum(d) ==
    WeightedSum(d, 1) % (IF Len(d) = 10 THEN 11 ELSE 10) = 0

RECURSIVE Canonical(_)
\* the digits as one string
Canonical(d) == IF d = <<>> THEN "" ELSE Head(d) \o Canonical(Tail(d))

NotValidISBNError == "NotValidISBNError"

\* isbnlib.Isbn(isbnlike): the object, here its .canonical, or the exception
Isbn(tok) ==
    IF ValidChecksum(Clean(tok))
    THEN [out |-> OK, canonical |-> Canonical(Clean(tok))]
    ELSE [out |-> NotValidISBNError, canonical |-> NULL]

\* find_isbn that goes on to the next match when one fails validation
find_isbn_TryNext(text) ==
    LET good == SelectSeq(get_isbnlike(text),
                          LAMBDA tok : Isbn(tok).out = OK)
    IN IF good = <<>> THEN None ELSE << Isbn(good[1]).canonical >>

\* find_isbn: <<canonical>> of the Isbn it returns, or None
find_isbn(text) ==
    LET found == get_isbnlike(text)
    IN IF found = <<>> THEN None                      \* IndexError: pass
       ELSE IF Isbn(found[1]).out = NotValidISBNError
            THEN None                                 \* NotValidISBNError: pass
       ELSE << Isbn(found[1]).canonical >>

FetchError == "FetchError"

\* what openlibrary holds for an isbn: the two isbns of the first book, the
\* isbn of the second
OpenLibrary(isbn) ==
    LET u == IF isbn = "9780226550275" THEN "b2" ELSE "b1"
    IN [url |-> u, isbn |-> isbn, title |-> MetaOf(isbn, u)[1],
        subtitle |-> MetaOf(isbn, u)[2],
        authors |-> << [url |-> "a1", name |-> "A"] >>,
        subjects |-> SubjectNames, cover_url |-> MetaOf(isbn, u)[3]]

\* one more call made by the loop
Called(l, call, isbn, ok) ==
    [l EXCEPT !.calls = Append(@, [call |-> call, isbn |-> isbn, ok |-> ok])]

\* the test of line 43 without the look into FOUND_ISBN
IsNew_Unchecked(isbn) == isbn # None

\* if isbn and isbn.canonical not in FOUND_ISBN
IsNew(isbn) == isbn # None /\ isbn[1] \notin FOUND_ISBN

\* buffer = pipeline.pop(): a frame, whose text the recognizer gives, or
\* nothing (time.sleep)
LoopPop ==
    /\ loop.pc = "pop" /\ loop.frames < MaxFrames
    /\ \E buffer \in { <<>> } \cup { <<t>> : t \in Texts } :
          loop' = IF buffer = <<>>
                  THEN [loop EXCEPT !.frames = @ + 1]
                  ELSE [loop EXCEPT !.frames = @ + 1, !.text = buffer,
                                    !.pc = "find_isbn"]
    /\ UNCHANGED <<tables, last, sess, schema, FOUND_ISBN>>

\* isbn = find_isbn(text); if isbn and isbn.canonical not in FOUND_ISBN
LoopFind ==
    /\ loop.pc = "find_isbn"
    /\ \E isbn \in { find_isbn(loop.text[1]) } :
          loop' = [Called(loop, "find_isbn",
                          IF isbn = None THEN NULL ELSE isbn[1],
                          isbn # None) EXCEPT
                      !.isbn = isbn,
                      !.pc = IF IsNew(isbn) THEN "fetch" ELSE "pop"]
    /\ UNCHANGED <<tables, last, sess, schema, FOUND_ISBN>>

\* book = Book.from_openlibrary(isbn): the Book, or the exception of the
\* request, which ends the loop
LoopFetch ==
    /\ loop.pc = "fetch"
    /\ \E ok \in BOOLEAN :
          loop' = IF ok
                  THEN [Called(loop, "fetch", loop.isbn[1], TRUE) EXCEPT
                           !.book = << OpenLibrary(loop.isbn[1]) >>,
                           !.pc = "add"]
                  ELSE [Called(loop, "fetch", loop.isbn[1], FALSE) EXCEPT
                           !.exc = FetchError, !.pc = "raised"]
    /\ UNCHANGED <<tables, last, sess, schema, FOUND_ISBN>>

\* FOUND_ISBN.add(isbn.canonical)
LoopAdd ==
    /\ loop.pc = "add"
    /\ FOUND_ISBN' = FOUND_ISBN \cup { loop.isbn[1] }
    /\ loop' = [Called(loop, "add", loop.isbn[1], TRUE) EXCEPT !.pc = "save"]
    /\ UNCHANGED <<tables, last, sess, schema>>

\* book.save(), with a storage failure at statement failAt (0: none); an
\* exception ends the loop
LoopSave ==
    /\ loop.pc = "save"
    /\ \E b \in { loop.book[1] } : \E order \in Orders(b.subjects) :
       \E c \in { save(DB, b, order) } :
       \E failAt \in 0 .. Len(c.aborts) :
       \E db \in { IF failAt = 0 THEN c.db ELSE c.aborts[failAt] } :
       \E out \in { IF failAt = 0 THEN c.err ELSE OperationalError } :
           /\ Publish(db)
           /\ loop' = [Called(loop, "save", b.isbn, out = OK) EXCEPT
                          !.exc = out,
                          !.pc = IF out = OK THEN "pop" ELSE "raised"]
    /\ UNCHANGED <<last, sess, schema, FOUND_ISBN>>

LoopInit ==
    /\ book = <<>> /\ author = <<>> /\ subject = <<>>
    /\ book_author = {} /\ book_subject = {}
    /\ last = Idle
    /\ sess = [s \in AllSessions |-> NoSession]
    /\ schema = SchemaTables
    /\ FOUND_ISBN = {}
    /\ loop = NoLoop

LoopNext == LoopPop \/ LoopFind \/ LoopFetch \/ LoopAdd \/ LoopSave

LoopSpec == LoopInit /\ [][LoopNext]_vars

\* the first ISBN-like word of a text: its place, 0 when there is none
FirstShaped(text) ==
    IF \A i \in DOMAIN text : ~Shaped(text[i]) THEN 0
    ELSE CHOOSE i \in DOMAIN text :
            Shaped(text[i]) /\ \A j \in 1 .. (i - 1) : ~Shaped(text[j])

\* C19: when find_isbn has run on a frame's text, it has returned the
\* canonical form of the first ISBN-like word when that word is valid, and
\* None when the text has no ISBN-like word or when the first one is not
\* valid, whatever comes after it.
C19_FirstMatchOnly ==
    (loop.text # <<>> /\ loop.pc # "find_isbn") =>
        \A text \in { loop.text[1] } : \A i \in { FirstShaped(text) } :
            IF i = 0 THEN loop.isbn = None
            ELSE IF ValidChecksum(Clean(text[i]))
                 THEN loop.isbn = << Canonical(Clean(text[i])) >>
            ELSE loop.isbn = None

\* find_isbn has returned None on a text whose first ISBN-like word fails
\* the check digit and whose second word is a valid ISBN
C19_Witness ==
    /\ loop.text # <<>> /\ loop.pc = "pop" /\ loop.isbn = None
    /\ Len(loop.text[1]) = 2
    /\ Shaped(loop.text[1][1]) /\ ~ValidChecksum(Clean(loop.text[1][1]))
    /\ Shaped(loop.text[1][2]) /\ ValidChecksum(Clean(loop.text[1][2]))

\* the calls of one kind made for an isbn
CallsOf(call, isbn) ==
    { i \in DOMAIN loop.calls :
        loop.calls[i].call = call /\ loop.calls[i].isbn = isbn }

\* C20: in a run of the loop each isbn is fetched at most once and saved at
\* most once; an isbn is in FOUND_ISBN only when its fetch has succeeded;
\* and save is called only right after its isbn was recorded, which is
\* right after its fetch succeeded.
C20_AtMostOnce ==
    /\ \A i, j \in DOMAIN loop.calls :
          ( /\ loop.calls[i].call \in {"fetch", "save"}
            /\ loop.calls[i].call = loop.calls[j].call
            /\ loop.calls[i].isbn = loop.calls[j].isbn ) => i = j
    /\ \A isbn \in FOUND_ISBN :
          \E i \in CallsOf("fetch", isbn) : loop.calls[i].ok
    /\ \A i \in DOMAIN loop.calls :
          /\ loop.calls[i].call = "save" =>
                /\ i > 1
                /\ loop.calls[i - 1] =
                      [call |-> "add", isbn |-> loop.calls[i].isbn, ok |-> TRUE]
          /\ loop.calls[i].call = "add" =>
                /\ i > 1
                /\ loop.calls[i - 1] =
                      [call |-> "fetch", isbn |-> loop.calls[i].isbn, ok |-> TRUE]
                /\ loop.calls[i].isbn \in FOUND_ISBN

\* three frames have resolved to the same isbn, which was fetched and saved
\* once, after the first of them
C20_Witness ==
    /\ loop.pc = "pop" /\ loop.isbn # None /\ loop.isbn[1] \in FOUND_ISBN
    /\ Cardinality(CallsOf("find_isbn", loop.isbn[1])) = MaxFrames
    /\ Cardinality(CallsOf("fetch", loop.isbn[1])) = 1
    /\ Cardinality(CallsOf("save", loop.isbn[1])) = 1
    /\ loop.calls[4] = [call |-> "save", isbn |-> loop.isbn[1], ok |-> TRUE]

====
